---- MODULE Spec2Model ----
(***************************************************************************)
(* Model of horusdemodlib/encoder.py: the Encoder class, a ctypes binding  *)
(* to the native Horus layer-2 codec (libhorus).  The Python methods are   *)
(* translated from encoder.py.  The native routines they call              *)
(* (horus_l2_get_num_tx_data_bytes, horus_l2_encode_tx_packet,             *)
(* horus_l2_decode_rx_packet, horus_l2_init) are not part of encoder.py;   *)
(* they are modelled after the codec the docstrings describe (Golay        *)
(* (23,12) parity added onto the packet contents, interleave, scramble,    *)
(* unique word 0x2424 in front), with the constants for which the model    *)
(* reproduces the self-test vectors of encoder.py lines 176 and 184.       *)
(***************************************************************************)
EXTENDS Integers, Sequences, FiniteSets, TLC

\* ------------------------------------------------------------------------
\* Bit helpers
\* ------------------------------------------------------------------------

\* bit k (0 = least significant) of the non-negative integer x
BitAt(x, k) == (x \div (2^k)) % 2

\* bitwise exclusive or of two non-negative integers
RECURSIVE Xor(_, _)
Xor(a, b) ==
    IF a = 0 THEN b
    ELSE IF b = 0 THEN a
    ELSE ((a + b) % 2) + 2 * Xor(a \div 2, b \div 2)

\* number of one bits of x
RECURSIVE Weight(_)
Weight(x) == IF x = 0 THEN 0 ELSE (x % 2) + Weight(x \div 2)

\* the integer whose binary digits, most significant first, are bits[lo..hi]
RECURSIVE BitsToInt(_, _, _)
BitsToInt(bits, lo, hi) ==
    IF hi < lo THEN 0 ELSE 2 * BitsToInt(bits, lo, hi - 1) + bits[hi]

\* the bits of a byte sequence, most significant bit of each byte first
\* (1-indexed): the order in which the encoder reads payload bits
BitsMSB(bs) == [i \in 1..(8 * Len(bs)) |-> BitAt(bs[((i - 1) \div 8) + 1], 7 - ((i - 1) % 8))]

\* pack a bit sequence into bytes, most significant bit first, the last
\* byte padded with zero bits
PackMSB(bits) ==
    [k \in 1..((Len(bits) + 7) \div 8) |->
        LET lo == 8 * (k - 1) + 1
            hi == IF 8 * k <= Len(bits) THEN 8 * k ELSE Len(bits)
        IN BitsToInt(bits, lo, hi) * (2^(8 * k - hi))]

\* ------------------------------------------------------------------------
\* Golay (23,12) block code
\* ------------------------------------------------------------------------

\* generator polynomial of the (23,12) Golay code
GENPOL == 3189

\* remainder of the 23-bit pattern modulo the generator polynomial
RECURSIVE SyndromeFrom(_, _)
SyndromeFrom(c, x) ==
    IF x < 0 THEN c
    ELSE SyndromeFrom(IF BitAt(c, 11 + x) = 1 THEN Xor(c, GENPOL * (2^x)) ELSE c, x - 1)

get_syndrome(pattern) == SyndromeFrom(pattern, 11)

\* 12 data bits -> 23-bit codeword: data in the high 12 bits, parity below
golay23_encode(data) == data * 2048 + get_syndrome(data * 2048)

\* a decoding table built for one- and two-bit errors only
ErrorPatternsUpToTwo ==
    LET B == 0..22
    IN {0} \cup {2^i : i \in B}
           \cup {2^p[1] + 2^p[2] : p \in {q \in B \X B : q[1] < q[2]}}

\* every error pattern of at most three bits in a 23-bit word
ErrorPatterns ==
    LET B == 0..22
    IN {0} \cup {2^i : i \in B}
           \cup {2^p[1] + 2^p[2] : p \in {q \in B \X B : q[1] < q[2]}}
           \cup {2^t[1] + 2^t[2] + 2^t[3] :
                     t \in {u \in B \X B \X B : u[1] < u[2] /\ u[2] < u[3]}}

\* the pairs <<syndrome, pattern>> horus_l2_init stores in the decoding table
SyndromePairs == {<<get_syndrome(e), e>> : e \in ErrorPatterns}

\* decoding_table as horus_l2_init builds it: indexed by syndrome, the error
\* pattern of at most three bits that has this syndrome
decoding_table ==
    [s \in 0..2047 |->
        IF \E p \in SyndromePairs : p[1] = s
        THEN (CHOOSE p \in SyndromePairs : p[1] = s)[2]
        ELSE 0]

\* corrected codeword: the received word with the table's pattern removed
golay23_decode(received) == Xor(received, decoding_table[get_syndrome(received)])

\* number of bit positions in which two words differ
golay23_count_errors(recd, corrected) == Weight(Xor(recd, corrected))

\* the spec's fec_encode / fec_decode pair over one codeword
fec_encode(d) == golay23_encode(d)

fec_decode(cw) ==
    LET corrected == golay23_decode(cw)
    IN [data |-> corrected \div 2048,
        error_count |-> golay23_count_errors(cw, corrected)]

\* ------------------------------------------------------------------------
\* Interleaver and scrambler
\* ------------------------------------------------------------------------

\* the bits of a byte sequence, least significant bit of each byte first
\* (0-indexed): the bit numbering of interleave and scramble
BitsLSB(bs) == [i \in 0..(8 * Len(bs) - 1) |-> BitAt(bs[(i \div 8) + 1], i % 8)]

\* the inverse of BitsLSB for nbytes bytes
PackLSB(bits, nbytes) ==
    [k \in 1..nbytes |->
        bits[8 * (k - 1)] + 2 * bits[8 * (k - 1) + 1] + 4 * bits[8 * (k - 1) + 2]
        + 8 * bits[8 * (k - 1) + 3] + 16 * bits[8 * (k - 1) + 4]
        + 32 * bits[8 * (k - 1) + 5] + 64 * bits[8 * (k - 1) + 6]
        + 128 * bits[8 * (k - 1) + 7]]

\* the interleaver's table of candidate multipliers
primes ==
    {2, 3, 5, 7, 11, 13, 17, 19, 23, 29, 31, 37, 41, 43, 47, 53, 59, 61, 67, 71,
     73, 79, 83, 89, 97, 101, 103, 107, 109, 113, 127, 131, 137, 139, 149, 151,
     157, 163, 167, 173, 179, 181, 191, 193, 197, 199, 211, 223, 227, 229, 233,
     239, 241, 251, 257, 263, 269, 271, 277, 281, 283, 293, 307, 311, 313, 317,
     331, 337, 347, 379, 383, 389, 757, 761, 769, 773}

\* the multiplier b: the largest table entry below nbits (the first entry
\* when there is none)
InterleaveMultiplier(nbits) ==
    LET below == {p \in primes : p < nbits}
    IN IF below = {} THEN 2 ELSE CHOOSE p \in below : \A q \in below : q <= p

\* interleave(inout, nbytes, dir): bit i of the input goes to bit j = b*i mod
\* nbits of the output (dir = 0), or bit j to bit i (dir = 1); the output
\* starts as zeros and bits are or-ed into it
interleave(inout, dir) ==
    LET nbytes == Len(inout)
        nbits == 8 * nbytes
        b == InterleaveMultiplier(nbits)
        in == BitsLSB(inout)
        ones == {(b * n) % nbits : n \in {m \in 0..(nbits - 1) : in[m] = 1}}
        out == IF dir = 0
               THEN [j \in 0..(nbits - 1) |-> IF j \in ones THEN 1 ELSE 0]
               ELSE [n \in 0..(nbits - 1) |-> in[(b * n) % nbits]]
    IN PackLSB(out, nbytes)

\* the additive scrambler's register at the start of every frame
SCRAMBLER_INIT == 19072

\* one step of the scrambler: the output bit and the updated register
ScramblerStep(scrambler) ==
    LET scrambler_out == (BitAt(scrambler, 1) + BitAt(scrambler, 0)) % 2
        shifted == scrambler \div 2
    IN [out |-> scrambler_out,
        reg |-> IF scrambler_out = 1 /\ BitAt(shifted, 14) = 0
                THEN shifted + 16384 ELSE shifted]

\* eight steps of the scrambler: the outputs for bits 0..7 of one byte,
\* packed least significant first, and the updated register
ScramblerByte(scrambler) ==
    LET s1 == ScramblerStep(scrambler)
        s2 == ScramblerStep(s1.reg)
        s3 == ScramblerStep(s2.reg)
        s4 == ScramblerStep(s3.reg)
        s5 == ScramblerStep(s4.reg)
        s6 == ScramblerStep(s5.reg)
        s7 == ScramblerStep(s6.reg)
        s8 == ScramblerStep(s7.reg)
    IN [mask |-> s1.out + 2 * s2.out + 4 * s3.out + 8 * s4.out + 16 * s5.out
                 + 32 * s6.out + 64 * s7.out + 128 * s8.out,
        reg |-> s8.reg]

\* the bytes from index k on, every bit xor-ed with the scrambler output
RECURSIVE ScrambleFrom(_, _, _)
ScrambleFrom(inout, k, scrambler) ==
    IF k > Len(inout) THEN <<>>
    ELSE LET sb == ScramblerByte(scrambler)
         IN <<Xor(inout[k], sb.mask)>> \o ScrambleFrom(inout, k + 1, sb.reg)

\* scramble(inout, nbytes): every bit xor-ed with the scrambler sequence
scramble(inout) == ScrambleFrom(inout, 1, SCRAMBLER_INIT)

\* ------------------------------------------------------------------------
\* Native layer-2 routines
\* ------------------------------------------------------------------------

\* the unique word at the start of every frame
uw == <<36, 36>>

\* number of Golay codewords that cover nbytes of payload
NumGolayCodewords(nbytes) == (8 * nbytes + 11) \div 12

\* horus_l2_get_num_tx_data_bytes: unique word + packet + parity bits,
\* rounded up to whole bytes
horus_l2_get_num_tx_data_bytes(num_payload_data_bytes) ==
    LET num_payload_data_bits == num_payload_data_bytes * 8
        num_golay_codewords == NumGolayCodewords(num_payload_data_bytes)
        num_tx_data_bits == Len(uw) * 8 + num_payload_data_bits + num_golay_codewords * 11
    IN (num_tx_data_bits + 7) \div 8

\* the 11 parity bits, most significant first, of codeword c of the payload
CodewordParity(bits, c) ==
    LET lo == 12 * (c - 1) + 1
        full == 12 * c <= Len(bits)
        hi == IF full THEN 12 * c ELSE Len(bits)
        ingolay == BitsToInt(bits, lo, hi)
        golayparity == IF full THEN get_syndrome(ingolay * 2048)
                       ELSE get_syndrome(ingolay * 4096)
    IN [i \in 1..11 |-> BitAt(golayparity, 11 - i)]

\* the parity bits of all codewords of the payload, in order
RECURSIVE ParityBits(_, _, _)
ParityBits(bits, c, ncw) ==
    IF c > ncw THEN <<>> ELSE CodewordParity(bits, c) \o ParityBits(bits, c + 1, ncw)

\* horus_l2_encode_tx_packet: the transmit buffer (unique word, then payload
\* and parity bytes interleaved and scrambled) and the returned byte count
horus_l2_encode_tx_packet(input_payload_data) ==
    LET n == Len(input_payload_data)
        parity == PackMSB(ParityBits(BitsMSB(input_payload_data), 1, NumGolayCodewords(n)))
        body == input_payload_data \o parity
    IN [output_tx_data |-> uw \o scramble(interleave(body, 0)),
        num_tx_data_bytes |-> horus_l2_get_num_tx_data_bytes(n)]

\* the corrected data bits of codeword c, given the received payload bits
\* and parity bits
CodewordData(databits, paritybits, c) ==
    LET lo == 12 * (c - 1) + 1
        full == 12 * c <= Len(databits)
        hi == IF full THEN 12 * c ELSE Len(databits)
        r == hi - lo + 1
        golayparity == BitsToInt(paritybits, 11 * (c - 1) + 1, 11 * c)
        ingolay == IF full
                   THEN BitsToInt(databits, lo, hi) * 2048 + golayparity
                   ELSE BitsToInt(databits, lo, hi) * 4096 + golayparity
        outdata == golay23_decode(ingolay) \div 2048
    IN IF full THEN [i \in 1..12 |-> BitAt(outdata, 12 - i)]
       ELSE [i \in 1..r |-> BitAt(outdata, r + 1 - i)]

RECURSIVE DecodedBits(_, _, _, _)
DecodedBits(databits, paritybits, c, ncw) ==
    IF c > ncw THEN <<>>
    ELSE CodewordData(databits, paritybits, c) \o DecodedBits(databits, paritybits, c + 1, ncw)

\* horus_l2_decode_rx_packet on a receive buffer that holds at least the
\* transmit size for num_payload_data_bytes: the bytes after the unique word
\* are descrambled and de-interleaved, every codeword is corrected, and
\* num_payload_data_bytes bytes are written to the output.  The first two
\* bytes are skipped; nothing is returned.
horus_l2_decode_rx_packet(input_rx_data, num_payload_data_bytes) ==
    LET num_tx_data_bytes == horus_l2_get_num_tx_data_bytes(num_payload_data_bytes)
        body == interleave(scramble(SubSeq(input_rx_data, Len(uw) + 1, num_tx_data_bytes)), 1)
        databits == BitsMSB(SubSeq(body, 1, num_payload_data_bytes))
        paritybits == BitsMSB(SubSeq(body, num_payload_data_bytes + 1, Len(body)))
    IN PackMSB(DecodedBits(databits, paritybits, 1, NumGolayCodewords(num_payload_data_bytes)))

\* ------------------------------------------------------------------------
\* The self-test vectors of encoder.py
\* ------------------------------------------------------------------------

horus_v1_unencoded_bytes ==
    <<0, 9, 0, 7, 30, 42, 0, 0, 0, 0, 0, 0, 0, 0, 0,
      0, 0, 0, 37, 154, 107, 20>>

horus_v1_encoded_bytes ==
    <<36, 36, 192, 107, 48, 13, 4, 21, 197, 219, 211, 50, 239, 215, 193,
      144, 215, 175, 127, 60, 40, 145, 222, 159, 75, 161, 235, 43, 67, 123,
      225, 226, 216, 65, 157, 61, 201, 228, 79, 223, 120, 218, 160, 122, 152>>

\* ------------------------------------------------------------------------
\* Python values
\* ------------------------------------------------------------------------

\* an argument value: its Python type and its content
PyValue(type, val) == [type |-> type, val |-> val]

\* what a call produces: a returned object (kind "int", "bytes",
\* "tuple(bytes,int)", "Encoder") or a raised exception (kind "TypeError",
\* "ValueError"); "none" while nothing was produced
Produced(kind, bytes, num) == [kind |-> kind, bytes |-> bytes, num |-> num]

Nothing == Produced("none", <<>>, 0)

\* a ctypes array of n unsigned bytes, zero-initialised
ZeroArray(n) == [k \in 1..n |-> 0]

\* the content of a ctypes array of alloc bytes after the native routine
\* wrote the bytes out from its start
ArrayAfterWrite(alloc, out) == [k \in 1..alloc |-> IF k <= Len(out) THEN out[k] ELSE 0]

\* ------------------------------------------------------------------------
\* Encoder methods, step by step
\* ------------------------------------------------------------------------

\* a type check that lets a bytearray through
IsNotBytesLoose(packet) == packet.type \notin {"bytes", "bytearray"}

\* type(packet) != bytes
IsNotBytes(packet) == packet.type # "bytes"

\* a transmit size that leaves the unique word out
get_num_tx_data_bytes_no_uw(packet_size) ==
    horus_l2_get_num_tx_data_bytes(packet_size) - Len(uw)

\* Encoder.get_num_tx_data_bytes
get_num_tx_data_bytes(packet_size) == horus_l2_get_num_tx_data_bytes(packet_size)

\* an input array that is created but never filled from the packet
EncodeBuffersNoCopy(packet) ==
    [unencoded |-> ZeroArray(Len(packet.val)),
     encoded |-> ZeroArray(horus_l2_get_num_tx_data_bytes(Len(packet.val))),
     decoded |-> <<>>]

\* horus_l2_encode_packet up to the allocation of the output array: the
\* copy of the input and the zeroed array of get_num_tx_data_bytes bytes
EncodeBuffers(packet) ==
    LET _num_encoded_bytes == get_num_tx_data_bytes(Len(packet.val))
    IN [unencoded |-> packet.val,
        encoded |-> ZeroArray(_num_encoded_bytes),
        decoded |-> <<>>]

\* the attribute horus_l2_encode_packet stores on the encode function
EncodeArgtype(packet) == <<get_num_tx_data_bytes(Len(packet.val)), Len(packet.val)>>

\* a return value that reports the payload size as the byte count
EncodeReturnPayloadCount(buffers) ==
    Produced("tuple(bytes,int)",
             ArrayAfterWrite(Len(buffers.encoded),
                             horus_l2_encode_tx_packet(buffers.unencoded).output_tx_data),
             Len(buffers.unencoded))

\* the native call of horus_l2_encode_packet and its return value
EncodeReturn(buffers) ==
    LET native == horus_l2_encode_tx_packet(buffers.unencoded)
        _encoded == ArrayAfterWrite(Len(buffers.encoded), native.output_tx_data)
    IN Produced("tuple(bytes,int)", _encoded, native.num_tx_data_bytes)

\* c_ubyte * num_payload_bytes raises for a negative length
ArrayLengthInvalid(num_payload_bytes) == num_payload_bytes < 0

\* an output array as long as the frame instead of the payload
DecodeBuffersFrameSized(packet, num_payload_bytes) ==
    [unencoded |-> <<>>,
     encoded |-> packet.val,
     decoded |-> ZeroArray(Len(packet.val))]

\* horus_l2_decode_packet up to the allocation of the output array
DecodeBuffers(packet, num_payload_bytes) ==
    [unencoded |-> <<>>,
     encoded |-> packet.val,
     decoded |-> ZeroArray(num_payload_bytes)]

\* the attribute horus_l2_decode_packet stores, on the encode function
DecodeArgtype(packet, num_payload_bytes) == <<num_payload_bytes, Len(packet.val)>>

\* the native decoder gets two pointers and the payload size only: it reads
\* the transmit size for that payload size, wherever the array ends
DecodeReadsPastEnd(buffers, num_payload_bytes) ==
    LET need == horus_l2_get_num_tx_data_bytes(num_payload_bytes)
    IN need > Len(uw) /\ need > Len(buffers.encoded)

\* the receive buffer as the native decoder sees it when the memory after
\* the array holds the byte fill
BufferSeenByDecoder(buffers, num_payload_bytes, fill) ==
    LET need == horus_l2_get_num_tx_data_bytes(num_payload_bytes)
        seen == IF need > Len(buffers.encoded) THEN need ELSE Len(buffers.encoded)
    IN [k \in 1..seen |-> IF k <= Len(buffers.encoded) THEN buffers.encoded[k] ELSE fill]

\* the native call of horus_l2_decode_packet and its return value: the
\* native routine's own return value is dropped, bytes(_decoded) is returned
DecodeReturn(buffers, num_payload_bytes, fill) ==
    LET written == horus_l2_decode_rx_packet(
                       BufferSeenByDecoder(buffers, num_payload_bytes, fill),
                       num_payload_bytes)
        _decoded == ArrayAfterWrite(Len(buffers.decoded), written)
    IN Produced("bytes", _decoded, 0)

\* horus_l2_encode_packet(packet) as a whole
horus_l2_encode_packet(packet) ==
    IF IsNotBytes(packet) THEN Produced("TypeError", <<>>, 0)
    ELSE EncodeReturn(EncodeBuffers(packet))

\* horus_l2_decode_packet(packet, num_payload_bytes) as a whole, when the
\* process survives the native call; fill is what lies behind the array
horus_l2_decode_packet(packet, num_payload_bytes, fill) ==
    IF IsNotBytes(packet) THEN Produced("TypeError", <<>>, 0)
    ELSE IF ArrayLengthInvalid(num_payload_bytes) THEN Produced("ValueError", <<>>, 0)
    ELSE DecodeReturn(DecodeBuffers(packet, num_payload_bytes), num_payload_bytes, fill)

\* ------------------------------------------------------------------------
\* Bounds and inputs
\* ------------------------------------------------------------------------

\* payloads of 0..MaxPayloadLen bytes are passed to the shared codec
MaxPayloadLen == 1

\* the shared codec's decode is called with num_payload_bytes in -1..MaxDecodeLen
MaxDecodeLen == 1

\* at most this many Encoder objects are constructed
MaxEncoders == 2

\* get_num_tx_data_bytes is called with packet sizes 0..MaxPacketSize
MaxPacketSize == 33

\* the round trip is run on payloads of seeds 0..MaxSeed for every length
MaxSeed == 4

\* a frame is cut down to at most MaxTruncatedLen bytes on the channel
MaxTruncatedLen == 3

\* codewords of data values FecDatum(0..NumFecData) are corrupted
NumFecData == 1

\* at most this many bits of a codeword are flipped
MaxFlips == 4

\* the threads that use the shared codec
Threads == {1, 2}

\* bytes that may lie behind the end of an array
MemoryFill == {0, 255}

\* payload sizes of protocol versions 1 and 2
SupportedLens == {22, 32}

\* payload lengths of the round trip
RoundTripLens == {0, 1, 2, 3} \cup SupportedLens

TestPayload(len, seed) == [i \in 1..len |-> (37 * i + 11 * len + 101 * seed * i * i + seed) % 256]

TestFrame(len) == horus_l2_encode_tx_packet(TestPayload(len, 0)).output_tx_data

\* a frame whose first byte is not the unique word's
Unsynced(frame) == [frame EXCEPT ![1] = 0]

EncodeInputs ==
    {PyValue("bytes", TestPayload(len, 0)) : len \in 0..MaxPayloadLen}
        \cup {PyValue("str", TestPayload(1, 0)), PyValue("bytearray", TestPayload(1, 0))}

\* frames for the shared codec: the two-byte frame of the empty payload (too
\* short for any larger payload size), a full frame, and a string
DecodeInputs ==
    {PyValue("bytes", TestFrame(0)), PyValue("bytes", TestFrame(MaxPayloadLen)),
     PyValue("str", TestFrame(1))}

DecodeLens == (-1)..MaxDecodeLen

RoundTripPayloads ==
    {PyValue("bytes", horus_v1_unencoded_bytes)}
        \cup {PyValue("bytes", TestPayload(len, seed)) : len \in RoundTripLens, seed \in 0..MaxSeed}

FecDatum(k) == (1217 * k + 2748) % 4096

NoBuffers == [unencoded |-> <<>>, encoded |-> <<>>, decoded |-> <<>>]

NoArg == PyValue("NoneType", <<>>)

NoCall == [op |-> "none", arg |-> NoArg, n |-> 0, allocs |-> 0, natives |-> 0]

NoSize == [n |-> -1, value |-> -1]

NoFecOut == [data |-> -1, error_count |-> -1]

\* ------------------------------------------------------------------------
\* State
\* ------------------------------------------------------------------------

VARIABLES
    loaded,      \* number of library objects created by Encoder.__init__
    encoders,    \* number of Encoder objects whose __init__ has returned
    initCalls,   \* number of horus_l2_init invocations in the process
    argtype,     \* the shared codec's horus_l2_encode_tx_packet.argtype
    crashed,     \* the process died in native code
    pc,          \* per thread: position in the method it runs
    call,        \* per thread: method, argument, counters of the current call
    local,       \* per thread: the method's ctypes arrays
    ret,         \* per thread: what the last finished call produced
    rtPc,        \* single-threaded program: its position
    rtPayload,   \* the payload it encodes
    rtLen,       \* the payload size it passes to decode
    rtFrame,     \* the frame as it arrives at the decoder
    rtSize,      \* what get_num_tx_data_bytes(len(payload)) returned
    rtEnc,       \* what horus_l2_encode_packet produced
    rtDec,       \* what horus_l2_decode_packet produced
    szPrev,      \* the get_num_tx_data_bytes call before the last: argument, value
    szLast,      \* the last get_num_tx_data_bytes call: argument, value
    fecData,     \* the 12 data bits of the codeword under test
    fecFlips,    \* the bit positions flipped in the codeword
    fecOut       \* the decoder's result for the corrupted codeword

codecVars == <<loaded, encoders, initCalls, argtype, crashed, pc, call, local, ret>>

rtVars == <<rtPc, rtPayload, rtLen, rtFrame, rtSize, rtEnc, rtDec>>

szVars == <<szPrev, szLast>>

fecVars == <<fecData, fecFlips, fecOut>>

vars == <<codecVars, rtVars, szVars, fecVars>>

CodecIdle ==
    /\ loaded = 0
    /\ encoders = 0
    /\ initCalls = 0
    /\ argtype = <<>>
    /\ crashed = FALSE
    /\ pc = [t \in Threads |-> "idle"]
    /\ call = [t \in Threads |-> NoCall]
    /\ local = [t \in Threads |-> NoBuffers]
    /\ ret = [t \in Threads |-> Nothing]

RtIdle ==
    /\ rtPc = "off"
    /\ rtPayload = NoArg
    /\ rtLen = 0
    /\ rtFrame = NoArg
    /\ rtSize = Nothing
    /\ rtEnc = Nothing
    /\ rtDec = Nothing

SzIdle == szPrev = NoSize /\ szLast = NoSize

FecIdle == fecData = 0 /\ fecFlips = {} /\ fecOut = NoFecOut

\* ------------------------------------------------------------------------
\* Threads sharing one codec
\* ------------------------------------------------------------------------

Init == CodecIdle /\ RtIdle /\ SzIdle /\ FecIdle

\* a thread can start a method when it is not inside one
Free(t) == ~crashed /\ pc[t] \in {"idle", "returned", "raised"}

Begin(t, op, arg, n) ==
    /\ call' = [call EXCEPT ![t] = [op |-> op, arg |-> arg, n |-> n, allocs |-> 0, natives |-> 0]]
    /\ local' = [local EXCEPT ![t] = NoBuffers]

Count(t, allocs, natives) ==
    call' = [call EXCEPT ![t].allocs = @ + allocs, ![t].natives = @ + natives]

\* Encoder.__init__ up to the call of horus_l2_init: the library object is
\* created and the restype / argtype attributes are set
Construct_Load(t) ==
    /\ Free(t)
    /\ loaded < MaxEncoders
    /\ loaded' = loaded + 1
    /\ Begin(t, "__init__", NoArg, 0)
    /\ pc' = [pc EXCEPT ![t] = "ctor_init"]
    /\ ret' = [ret EXCEPT ![t] = Nothing]
    /\ UNCHANGED <<encoders, initCalls, argtype, crashed, rtVars, szVars, fecVars>>

\* self.c_lib.horus_l2_init(): called by every __init__, then __init__ returns
Construct_Init(t) ==
    /\ ~crashed
    /\ pc[t] = "ctor_init"
    /\ initCalls' = initCalls + 1
    /\ encoders' = encoders + 1
    /\ Count(t, 0, 1)
    /\ pc' = [pc EXCEPT ![t] = "returned"]
    /\ ret' = [ret EXCEPT ![t] = Produced("Encoder", <<>>, 0)]
    /\ UNCHANGED <<loaded, argtype, crashed, local, rtVars, szVars, fecVars>>

\* horus_l2_encode_packet(packet): the type check
Encode_Check(t, packet) ==
    /\ Free(t)
    /\ encoders >= 1
    /\ Begin(t, "encode", packet, 0)
    /\ pc' = [pc EXCEPT ![t] = IF IsNotBytes(packet) THEN "raised" ELSE "enc_alloc"]
    /\ ret' = [ret EXCEPT ![t] = IF IsNotBytes(packet) THEN Produced("TypeError", <<>>, 0)
                                 ELSE Nothing]
    /\ UNCHANGED <<loaded, encoders, initCalls, argtype, crashed, rtVars, szVars, fecVars>>

\* the input is copied, the transmit size is asked for and the output array
\* is allocated
Encode_Alloc(t) ==
    /\ ~crashed
    /\ pc[t] = "enc_alloc"
    /\ local' = [local EXCEPT ![t] = EncodeBuffers(call[t].arg)]
    /\ Count(t, 2, 1)
    /\ pc' = [pc EXCEPT ![t] = "enc_bind"]
    /\ UNCHANGED <<loaded, encoders, initCalls, argtype, crashed, ret, rtVars, szVars, fecVars>>

\* self.c_lib.horus_l2_encode_tx_packet.argtype = [...]
Encode_Bind(t) ==
    /\ ~crashed
    /\ pc[t] = "enc_bind"
    /\ argtype' = EncodeArgtype(call[t].arg)
    /\ pc' = [pc EXCEPT ![t] = "enc_call"]
    /\ UNCHANGED <<loaded, encoders, initCalls, crashed, call, local, ret, rtVars, szVars, fecVars>>

\* the native encoder runs and the method returns (bytes(_encoded), _num_bytes)
Encode_Call(t) ==
    /\ ~crashed
    /\ pc[t] = "enc_call"
    /\ LET r == EncodeReturn(local[t])
       IN /\ ret' = [ret EXCEPT ![t] = r]
          /\ local' = [local EXCEPT ![t].encoded = r.bytes]
    /\ Count(t, 0, 1)
    /\ pc' = [pc EXCEPT ![t] = "returned"]
    /\ UNCHANGED <<loaded, encoders, initCalls, argtype, crashed, rtVars, szVars, fecVars>>

\* horus_l2_decode_packet(packet, num_payload_bytes): the type check
Decode_Check(t, packet, num_payload_bytes) ==
    /\ Free(t)
    /\ encoders >= 1
    /\ Begin(t, "decode", packet, num_payload_bytes)
    /\ pc' = [pc EXCEPT ![t] = IF IsNotBytes(packet) THEN "raised" ELSE "dec_alloc"]
    /\ ret' = [ret EXCEPT ![t] = IF IsNotBytes(packet) THEN Produced("TypeError", <<>>, 0)
                                 ELSE Nothing]
    /\ UNCHANGED <<loaded, encoders, initCalls, argtype, crashed, rtVars, szVars, fecVars>>

\* the frame is copied and the output array of num_payload_bytes bytes is
\* allocated; ctypes refuses a negative array length
Decode_Alloc(t) ==
    /\ ~crashed
    /\ pc[t] = "dec_alloc"
    /\ IF ArrayLengthInvalid(call[t].n)
       THEN /\ pc' = [pc EXCEPT ![t] = "raised"]
            /\ ret' = [ret EXCEPT ![t] = Produced("ValueError", <<>>, 0)]
            /\ local' = [local EXCEPT ![t].encoded = call[t].arg.val]
            /\ Count(t, 1, 0)
       ELSE /\ pc' = [pc EXCEPT ![t] = "dec_bind"]
            /\ local' = [local EXCEPT ![t] = DecodeBuffers(call[t].arg, call[t].n)]
            /\ Count(t, 2, 0)
            /\ UNCHANGED ret
    /\ UNCHANGED <<loaded, encoders, initCalls, argtype, crashed, rtVars, szVars, fecVars>>

\* self.c_lib.horus_l2_encode_tx_packet.argtype = [...] (the encode
\* function's attribute, also in the decode method)
Decode_Bind(t) ==
    /\ ~crashed
    /\ pc[t] = "dec_bind"
    /\ argtype' = DecodeArgtype(call[t].arg, call[t].n)
    /\ pc' = [pc EXCEPT ![t] = "dec_call"]
    /\ UNCHANGED <<loaded, encoders, initCalls, crashed, call, local, ret, rtVars, szVars, fecVars>>

\* the native decoder runs, its return value is dropped and the method
\* returns bytes(_decoded).  When the decoder reads past the end of the
\* array it works on whatever the memory behind it holds.
Decode_Call(t) ==
    /\ ~crashed
    /\ pc[t] = "dec_call"
    /\ \E fill \in (IF DecodeReadsPastEnd(local[t], call[t].n) THEN MemoryFill ELSE {0}) :
          LET r == DecodeReturn(local[t], call[t].n, fill)
          IN /\ ret' = [ret EXCEPT ![t] = r]
             /\ local' = [local EXCEPT ![t].decoded = r.bytes]
    /\ Count(t, 0, 1)
    /\ pc' = [pc EXCEPT ![t] = "returned"]
    /\ UNCHANGED <<loaded, encoders, initCalls, argtype, crashed, rtVars, szVars, fecVars>>

\* ... or the access behind the array ends the process
Decode_Crash(t) ==
    /\ ~crashed
    /\ pc[t] = "dec_call"
    /\ DecodeReadsPastEnd(local[t], call[t].n)
    /\ crashed' = TRUE
    /\ Count(t, 0, 1)
    /\ pc' = [pc EXCEPT ![t] = "crashed"]
    /\ UNCHANGED <<loaded, encoders, initCalls, argtype, local, ret, rtVars, szVars, fecVars>>

Next ==
    \/ \E t \in Threads : Construct_Load(t)
    \/ \E t \in Threads : Construct_Init(t)
    \/ \E t \in Threads, p \in EncodeInputs : Encode_Check(t, p)
    \/ \E t \in Threads : Encode_Alloc(t)
    \/ \E t \in Threads : Encode_Bind(t)
    \/ \E t \in Threads : Encode_Call(t)
    \/ \E t \in Threads, p \in DecodeInputs, n \in DecodeLens : Decode_Check(t, p, n)
    \/ \E t \in Threads : Decode_Alloc(t)
    \/ \E t \in Threads : Decode_Bind(t)
    \/ \E t \in Threads : Decode_Call(t)
    \/ \E t \in Threads : Decode_Crash(t)

Spec == Init /\ [][Next]_vars

\* ------------------------------------------------------------------------
\* One program: size, encode, channel, decode (the self-test's sequence)
\* ------------------------------------------------------------------------

InitRT ==
    /\ CodecIdle /\ SzIdle /\ FecIdle
    /\ rtPc = "start"
    /\ rtPayload \in RoundTripPayloads
    /\ rtLen = 0
    /\ rtFrame = NoArg
    /\ rtSize = Nothing
    /\ rtEnc = Nothing
    /\ rtDec = Nothing

\* e.get_num_tx_data_bytes(len(payload))
RT_Size ==
    /\ rtPc = "start"
    /\ rtSize' = Produced("int", <<>>, get_num_tx_data_bytes(Len(rtPayload.val)))
    /\ rtPc' = "sized"
    /\ UNCHANGED <<rtPayload, rtLen, rtFrame, rtEnc, rtDec, codecVars, szVars, fecVars>>

\* (_encoded, _num_bytes) = e.horus_l2_encode_packet(payload)
RT_Encode ==
    /\ rtPc = "sized"
    /\ rtEnc' = horus_l2_encode_packet(rtPayload)
    /\ rtFrame' = PyValue("bytes", rtEnc'.bytes)
    /\ rtPc' = "encoded"
    /\ UNCHANGED <<rtPayload, rtLen, rtSize, rtDec, codecVars, szVars, fecVars>>

\* the channel delivers a frame without the unique word
RT_Unsync ==
    /\ rtPc = "encoded"
    /\ rtFrame' = PyValue("bytes", Unsynced(rtFrame.val))
    /\ rtPc' = "unsynced"
    /\ UNCHANGED <<rtPayload, rtLen, rtSize, rtEnc, rtDec, codecVars, szVars, fecVars>>

\* the channel delivers only the first len bytes of the frame
RT_Truncate(len) ==
    /\ rtPc = "encoded"
    /\ len < Len(rtFrame.val)
    /\ rtFrame' = PyValue("bytes", SubSeq(rtFrame.val, 1, len))
    /\ rtPc' = "truncated"
    /\ UNCHANGED <<rtPayload, rtLen, rtSize, rtEnc, rtDec, codecVars, szVars, fecVars>>

\* the channel delivers the unique word followed by noise
RT_Noise(fill) ==
    /\ rtPc = "encoded"
    /\ Len(rtFrame.val) > Len(uw)
    /\ rtFrame' = PyValue("bytes", [k \in 1..Len(rtFrame.val) |->
                                       IF k <= Len(uw) THEN uw[k] ELSE fill])
    /\ rtPc' = "noisy"
    /\ UNCHANGED <<rtPayload, rtLen, rtSize, rtEnc, rtDec, codecVars, szVars, fecVars>>

\* e.horus_l2_decode_packet(frame, len(payload))
RT_Decode ==
    /\ rtPc \in {"encoded", "unsynced", "truncated", "noisy"}
    /\ rtLen' = Len(rtPayload.val)
    /\ LET past == DecodeReadsPastEnd(DecodeBuffers(rtFrame, rtLen'), rtLen')
       IN \E fill \in (IF past THEN MemoryFill ELSE {0}) :
             rtDec' = horus_l2_decode_packet(rtFrame, rtLen', fill)
    /\ rtPc' = IF rtPc = "encoded" THEN "decoded" ELSE "decoded_" \o rtPc
    /\ UNCHANGED <<rtPayload, rtFrame, rtSize, rtEnc, codecVars, szVars, fecVars>>

\* the native decoder's access behind a truncated frame ends the process
RT_Crash ==
    /\ rtPc \in {"encoded", "unsynced", "truncated", "noisy"}
    /\ DecodeReadsPastEnd(DecodeBuffers(rtFrame, Len(rtPayload.val)), Len(rtPayload.val))
    /\ rtLen' = Len(rtPayload.val)
    /\ rtPc' = "crashed"
    /\ UNCHANGED <<rtPayload, rtFrame, rtSize, rtEnc, rtDec, codecVars, szVars, fecVars>>

NextRT ==
    \/ RT_Size
    \/ RT_Encode
    \/ RT_Unsync
    \/ \E len \in 0..MaxTruncatedLen : RT_Truncate(len)
    \/ \E fill \in MemoryFill : RT_Noise(fill)
    \/ RT_Decode
    \/ RT_Crash

SpecRT == InitRT /\ [][NextRT]_vars

\* ------------------------------------------------------------------------
\* get_num_tx_data_bytes between encode and decode calls
\* ------------------------------------------------------------------------

InitSize ==
    /\ CodecIdle /\ SzIdle /\ FecIdle
    /\ rtPc = "start"
    /\ rtPayload = PyValue("bytes", TestPayload(1, 0))
    /\ rtLen = 1
    /\ rtFrame = NoArg
    /\ rtSize = Nothing
    /\ rtEnc = Nothing
    /\ rtDec = Nothing

\* e.get_num_tx_data_bytes(packet_size)
Sz_Size(packet_size) ==
    /\ szPrev' = szLast
    /\ szLast' = [n |-> packet_size, value |-> get_num_tx_data_bytes(packet_size)]
    /\ UNCHANGED <<rtVars, codecVars, fecVars>>

\* an encode call in between
Sz_Encode ==
    /\ rtEnc' = horus_l2_encode_packet(rtPayload)
    /\ rtFrame' = PyValue("bytes", rtEnc'.bytes)
    /\ rtDec' = Nothing
    /\ rtPc' = "encoded"
    /\ UNCHANGED <<rtPayload, rtLen, rtSize, codecVars, szVars, fecVars>>

\* a decode call in between
Sz_Decode ==
    /\ rtPc = "encoded"
    /\ rtDec' = horus_l2_decode_packet(rtFrame, rtLen, 0)
    /\ rtPc' = "decoded"
    /\ UNCHANGED <<rtPayload, rtLen, rtFrame, rtSize, rtEnc, codecVars, szVars, fecVars>>

NextSize ==
    \/ \E n \in 0..MaxPacketSize : Sz_Size(n)
    \/ Sz_Encode
    \/ Sz_Decode

SpecSize == InitSize /\ [][NextSize]_vars

\* ------------------------------------------------------------------------
\* One codeword of the block code under bit errors
\* ------------------------------------------------------------------------

InitFec ==
    /\ CodecIdle /\ RtIdle /\ SzIdle
    /\ fecData \in {FecDatum(k) : k \in 0..NumFecData}
    /\ fecFlips = {}
    /\ fecOut = NoFecOut

\* the word with the bits at the given positions set
RECURSIVE FlipMask(_)
FlipMask(positions) ==
    IF positions = {} THEN 0
    ELSE LET p == CHOOSE q \in positions : TRUE
         IN 2^p + FlipMask(positions \ {p})

\* the channel flips one more bit of the codeword (positions in rising order)
Fec_Flip(pos) ==
    /\ fecOut = NoFecOut
    /\ Cardinality(fecFlips) < MaxFlips
    /\ \A q \in fecFlips : q < pos
    /\ fecFlips' = fecFlips \cup {pos}
    /\ UNCHANGED <<fecData, fecOut, codecVars, rtVars, szVars>>

\* the corrupted codeword is decoded
Fec_Decode ==
    /\ fecOut = NoFecOut
    /\ fecOut' = fec_decode(Xor(fec_encode(fecData), FlipMask(fecFlips)))
    /\ UNCHANGED <<fecData, fecFlips, codecVars, rtVars, szVars>>

NextFec ==
    \/ \E pos \in 0..22 : Fec_Flip(pos)
    \/ Fec_Decode

SpecFec == InitFec /\ [][NextFec]_vars

\* ------------------------------------------------------------------------
\* Properties
\* ------------------------------------------------------------------------

\* a decode call of the program has returned
RtDecodeReturned == rtPc \in {"decoded", "decoded_unsynced", "decoded_truncated", "decoded_noisy"}

C2_NonBytesRejected ==
    \A t \in Threads :
        (call[t].op \in {"encode", "decode"} /\ call[t].arg.type # "bytes")
            => /\ pc[t] = "raised"
               /\ ret[t].kind = "TypeError"
               /\ ret[t].bytes = <<>>
               /\ call[t].allocs = 0
               /\ call[t].natives = 0
               /\ local[t] = NoBuffers

\* one thread's encode and the other's decode were both rejected
C2_Witness ==
    /\ \E t \in Threads : call[t].op = "encode" /\ call[t].arg.type = "bytearray" /\ pc[t] = "raised"
    /\ \E t \in Threads : call[t].op = "decode" /\ call[t].arg.type = "str" /\ pc[t] = "raised"

\* C3 as stated: a decode call on a bytes frame whose expected_payload_len
\* is not 22 or 32 fails and returns no payload
C3_DecodeValidatesLength ==
    \A t \in Threads :
        (call[t].op = "decode" /\ call[t].arg.type = "bytes" /\ call[t].n \notin SupportedLens)
            => pc[t] # "returned"

\* C4 as stated: for every bytes frame and a payload size of 22 or 32,
\* decode completes and returns exactly that many bytes, and a frame without
\* the unique word is reported as NotSynced in the result
C4_DecodeNeverFails ==
    (rtPc \in {"crashed"} \cup {"decoded", "decoded_unsynced", "decoded_truncated", "decoded_noisy"}
        /\ rtLen \in SupportedLens)
        => /\ rtPc # "crashed"
           /\ Len(rtDec.bytes) = rtLen
           /\ (SubSeq(rtFrame.val, 1, Len(uw)) # uw => rtDec.kind = "NotSynced")

CeilDiv(a, b) == (a + b - 1) \div b

\* the transmit size as C6 states it
StatedTransmitSize(n) == CeilDiv(CeilDiv(n * 8 + 16, 12) * 23, 8)

\* unique word, payload and 11 parity bits per started 12-bit group
FramedTransmitSize(n) == CeilDiv(16 + n * 8 + 11 * CeilDiv(n * 8, 12), 8)

\* two calls agree for equal arguments and keep the arguments' order
SizeCallsConsistent ==
    (szPrev # NoSize /\ szLast # NoSize)
        => /\ (szPrev.n = szLast.n => szPrev.value = szLast.value)
           /\ (szPrev.n <= szLast.n => szPrev.value <= szLast.value)
           /\ (szPrev.n >= szLast.n => szPrev.value >= szLast.value)

EncodedBitCount(n) == n * 8 + 11 * CeilDiv(n * 8, 12)

C8_InitOnce ==
    /\ initCalls <= 1
    /\ \A t \in Threads : call[t].op \in {"encode", "decode"} => initCalls = 1

\* C9 as stated: every encode or decode call on the shared codec returns
\* what it returns when run alone, and no call changes state shared with
\* other calls, the function's binding configuration included
C9_CallsIndependent ==
    /\ \A t \in Threads :
          pc[t] = "returned"
              => /\ call[t].op = "encode" => ret[t] = horus_l2_encode_packet(call[t].arg)
                 /\ call[t].op = "decode"
                        => \E fill \in MemoryFill :
                               ret[t] = horus_l2_decode_packet(call[t].arg, call[t].n, fill)
    /\ argtype = <<>>

\* C10: with 0..3 bits of a codeword flipped, fec_decode returns the data
\* with error_count = number of flips; with 4 or more flipped it returns
\* other data or flags the codeword as uncorrectable
C10_CorrectionBound ==
    fecOut # NoFecOut
        => /\ Cardinality(fecFlips) <= 3
                  => (fecOut.data = fecData /\ fecOut.error_count = Cardinality(fecFlips))
           /\ Cardinality(fecFlips) >= 4
                  => (fecOut.data # fecData \/ fecOut.error_count \notin 0..3)

\* three flipped bits, one of them a data bit, were corrected
C10_Witness ==
    /\ fecOut # NoFecOut
    /\ Cardinality(fecFlips) = 3
    /\ \E p \in fecFlips : p >= 11
    /\ fecOut.data = fecData
    /\ fecOut.error_count = 3
====
